---- MODULE Spec2Model ----
(***************************************************************************)
(* Model of src/project.py: class SleepHealthAnalyzer.                     *)
(*                                                                         *)
(* A CSV file is a header (sequence of column names) and a sequence of     *)
(* rows; a row maps each column name to a cell.  A cell is <<v>> when the  *)
(* field holds the value v and <<>> when the field is missing (NaN).       *)
(* The 'Quality of Sleep' cells hold the score in tenths (30 is 3.0, 31    *)
(* is 3.1), every other numeric cell holds an integer.                     *)
(* Floating point results are exact rationals <<num, den>>; den = 0 is a   *)
(* non-finite value (<<0, 0>> is nan, the result of 0.0 / 0.0).            *)
(* The display strings of the program are Russian; the model writes the    *)
(* labels 'Плохое', 'Среднее', 'Хорошее' as "Low", "Medium", "High" and    *)
(* the dialog title 'Ошибка' as "Error".                                   *)
(***************************************************************************)
EXTENDS Integers, Sequences, FiniteSets, TLC

VARIABLES pc, path, file, df, dialogs, trace, read, tree, tables, charts, radial, exc

vars == <<pc, path, file, df, dialogs, trace, read, tree, tables, charts, radial, exc>>

(***************************************************************************)
(* Bounds of the model                                                     *)
(***************************************************************************)
\* longest file assembled from the row pool
MaxRows == 2
\* most lines read from standard input in one run
MaxInputs == 3
\* the long files retain up to HeadLimit + MaxOver rows
MaxOver == 1

(***************************************************************************)
(* Generic helpers (pandas / numpy primitives)                             *)
(***************************************************************************)
Range(s) == {s[i] : i \in DOMAIN s}

\* the sum of s[lo..hi], by halves
RECURSIVE SumRange(_, _, _)
SumRange(s, lo, hi) ==
    IF lo > hi THEN 0
    ELSE IF lo = hi THEN s[lo]
    ELSE LET mid == (lo + hi) \div 2
         IN SumRange(s, lo, mid) + SumRange(s, mid + 1, hi)

\* Series.sum()
Sum(s) == SumRange(s, 1, Len(s))

\* Series.min()
Min(s) == CHOOSE x \in Range(s) : \A y \in Range(s) : x <= y

\* Series.max()
Max(s) == CHOOSE x \in Range(s) : \A y \in Range(s) : x >= y

Abs(n) == IF n < 0 THEN -n ELSE n

RECURSIVE GCD(_, _)
GCD(a, b) == IF b = 0 THEN a ELSE GCD(b, a % b)

\* a float: the rational n / d in lowest terms with d > 0; 0/0 is nan, and
\* a nonzero numerator over 0 is +inf or -inf
Float(n, d) ==
    IF d = 0 THEN <<(IF n > 0 THEN 1 ELSE IF n < 0 THEN -1 ELSE 0), 0>>
    ELSE LET g == GCD(Abs(n), Abs(d))
             s == IF d < 0 THEN -1 ELSE 1
         IN <<(s * n) \div g, (s * d) \div g>>

isfinite(v) == v[2] # 0

\* v + k for a float v and an integer k (nan and inf absorb the addend)
FloatAdd(v, k) == IF isfinite(v) THEN Float(v[1] + k * v[2], v[2]) ELSE v

\* format(v, ".1f"): the number of tenths nearest to v, ties to even; a
\* non-finite value is formatted as itself ("nan", "inf")
Format1f(v) ==
    IF ~isfinite(v) THEN v
    ELSE LET t == 10 * v[1]
             q == t \div v[2]
             r == t % v[2]
             up == (2 * r > v[2]) \/ (2 * r = v[2] /\ q % 2 = 1)
         IN <<(IF up THEN q + 1 ELSE q), 10>>

(***************************************************************************)
(* Columns                                                                 *)
(***************************************************************************)
QualityColumn == "Quality of Sleep"

\* the derived column 'Категория качества сна'
CategoryColumn == "Quality category"

\* show_analytics: categories
categories == <<"Sleep Duration", "Quality of Sleep", "Physical Activity Level",
                "Stress Level", "Heart Rate", "Daily Steps">>

\* the header of the data set the program is written for
ExpectedColumns == <<"Person ID", "Gender">> \o categories

Tenth(n) == 10 * n

\* setup_quality_categories: sleep_quality_bins (in tenths)
sleep_quality_bins == <<Tenth(0), Tenth(3), Tenth(6), Tenth(10)>>

\* setup_quality_categories: sleep_quality_labels
sleep_quality_labels == <<"Low", "Medium", "High">>

include_lowest == TRUE

\* show_full_dataset: self.df.head(200)
HeadLimit == 200

\* show_error_message: textwrap.fill(message, width=60)
WrapWidth == 60

DefaultPath == "Sleep_health_and_lifestyle_dataset.csv"

(***************************************************************************)
(* Input files and input lines                                             *)
(***************************************************************************)
NA == <<>>

isna(cell) == cell = NA

\* one row of a file with the expected header, cell by cell
Row(id, gender, dur, q, act, stress, hr, steps) ==
    ("Person ID" :> id) @@ ("Gender" :> gender) @@ ("Sleep Duration" :> dur) @@
    ("Quality of Sleep" :> q) @@ ("Physical Activity Level" :> act) @@
    ("Stress Level" :> stress) @@ ("Heart Rate" :> hr) @@ ("Daily Steps" :> steps)

Csv(columns, rows) == [kind |-> "csv", columns |-> columns, rows |-> rows]

\* no file at the path
Absent == [kind |-> "absent", columns |-> <<>>, rows |-> <<>>]

\* a file that pandas cannot parse
Unreadable == [kind |-> "unreadable", columns |-> <<>>, rows |-> <<>>]

\* rows the short files are assembled from: scores 3.0, 3.1, 10.1 and -0.1,
\* and a row with a missing field
PoolRows ==
    << Row(NA, <<"Male">>,   <<6>>, <<30>>,  <<30>>, <<8>>, <<70>>, <<3000>>),
       Row(NA, <<"Female">>, <<7>>, <<31>>,  <<45>>, <<6>>, <<70>>, <<5000>>),
       Row(NA, <<"Male">>,   <<8>>, <<101>>, <<60>>, <<3>>, <<65>>, <<8000>>),
       Row(NA, <<"Female">>, <<7>>, <<-1>>,  <<45>>, <<6>>, <<70>>, <<5000>>),
       Row(NA, <<"Male">>,   <<6>>, <<70>>,  <<30>>, NA,    <<72>>, <<3000>>) >>

\* the file whose i-th row is the pool row picks[i], numbered by position
PoolFile(picks) ==
    Csv(ExpectedColumns,
        [i \in 1..Len(picks) |-> [PoolRows[picks[i]] EXCEPT !["Person ID"] = <<i>>]])

SeqsUpTo(S, n) == UNION {[1..k -> S] : k \in 0..n}

ShortFiles == {PoolFile(p) : p \in SeqsUpTo(DOMAIN PoolRows, MaxRows)}

\* the scores of the boundary test: 0, 3, 3.1, 6, 6.1, 10
BoundaryFile ==
    LET q == <<0, 30, 31, 60, 61, 100>>
    IN Csv(ExpectedColumns,
           [i \in 1..Len(q) |->
               Row(<<i>>, <<"Male">>, <<7>>, <<q[i]>>, <<40>>, <<5>>, <<70>>, <<6000>>)])

\* four complete rows whose 'Sleep Duration' values are 2, 4, 6, 8 and whose
\* other features all vary
ExampleFile ==
    LET dur == <<2, 4, 6, 8>>
        q == <<40, 60, 90, 90>>
        act == <<30, 30, 30, 90>>
        stress == <<1, 2, 3, 6>>
        hr == <<60, 90, 90, 90>>
        steps == <<3000, 3000, 4000, 8000>>
    IN Csv(ExpectedColumns,
           [i \in 1..4 |->
               Row(<<i>>, (IF i % 2 = 1 THEN <<"Male">> ELSE <<"Female">>), <<dur[i]>>,
                   <<q[i]>>, <<act[i]>>, <<stress[i]>>, <<hr[i]>>, <<steps[i]>>)])

\* row i of a long file; every 97th row lacks its heart rate
LongRow(i) ==
    Row(<<i>>, (IF i % 2 = 1 THEN <<"Male">> ELSE <<"Female">>), <<5 + (i % 4)>>,
        <<Tenth(1 + (i % 10))>>, <<30 + 15 * (i % 5)>>, <<3 + (i % 6)>>,
        (IF i % 97 = 0 THEN NA ELSE <<60 + (i % 25)>>), <<4000 + (i % 9)>>)

\* files around the table's row limit: two of the rows are incomplete, so
\* HeadLimit - 1 .. HeadLimit + MaxOver rows are retained
LongFiles ==
    {Csv(ExpectedColumns, [i \in 1..n |-> LongRow(i)]) :
        n \in (HeadLimit + 1)..(HeadLimit + MaxOver + 2)}

\* the file without the column c
DropColumn(f, c) ==
    Csv(SelectSeq(f.columns, LAMBDA x : x # c),
        [i \in 1..Len(f.rows) |-> [x \in (DOMAIN f.rows[i]) \ {c} |-> f.rows[i][x]]])

\* files that lack one column of the expected header
LackingFiles ==
    {DropColumn(f, c) : f \in {ExampleFile, PoolFile(<<5>>)}, c \in Range(ExpectedColumns)}

Files == {Absent, Unreadable, BoundaryFile, ExampleFile}
            \cup ShortFiles \cup LongFiles \cup LackingFiles

OtherPath == "data/sleep.csv"

Paths == {DefaultPath, OtherPath}

\* what the file system holds at path p
FilesAt(p) == IF p = DefaultPath THEN Files ELSE {Absent, Unreadable, ExampleFile}

\* lines of standard input, character by character
Lines == { <<"1">>, <<"2">>, <<"3">>, <<"9">>, <<" ", "1", " ">> }

(***************************************************************************)
(* Loading and category derivation                                         *)
(***************************************************************************)
\* pd.DataFrame()
DataFrame == [columns |-> <<>>, rows |-> <<>>]

\* DataFrame.empty
empty(d) == Len(d.rows) = 0 \/ Len(d.columns) = 0

\* DataFrame.dropna(): the rows without a missing cell, in order
dropna_rows(rows) == SelectSeq(rows, LAMBDA r : \A c \in DOMAIN r : ~isna(r[c]))

dropna(d) == [columns |-> d.columns, rows |-> dropna_rows(d.rows)]

NoException == [type |-> "", origin |-> ""]

Raise(type, origin) == [type |-> type, origin |-> origin]

\* textwrap.fill(message, width)
fill(message, width) == [message EXCEPT !.width = <<width>>]

\* messagebox.showerror(title, text): the dialog shown
showerror(title, text) == [title |-> title, text |-> text]

\* show_error_message(message)
show_error_message(message) == showerror("Error", fill(message, WrapWidth))

Message(kind, arg) == [kind |-> kind, arg |-> arg, width |-> NA]

\* a read_file that swallows FileNotFoundError without reporting it
read_file_silent(p, f) ==
    IF f.kind = "absent"
    THEN [df |-> DataFrame, dialogs |-> <<>>]
    ELSE IF f.kind = "unreadable"
    THEN [df |-> DataFrame,
          dialogs |-> <<show_error_message(Message("load failed", "ParserError"))>>]
    ELSE [df |-> dropna([columns |-> f.columns, rows |-> f.rows]), dialogs |-> <<>>]

\* read_file(path) with f at the path: the data frame returned and the dialogs shown
read_file(p, f) ==
    IF f.kind = "absent"
    THEN [df |-> DataFrame,
          dialogs |-> <<show_error_message(Message("file not found", p))>>]
    ELSE IF f.kind = "unreadable"
    THEN [df |-> DataFrame,
          dialogs |-> <<show_error_message(Message("load failed", "ParserError"))>>]
    ELSE [df |-> dropna([columns |-> f.columns, rows |-> f.rows]), dialogs |-> <<>>]

\* searchsorted with side='right': how many elements of a are at most v
searchsorted_right(a, v) == Cardinality({i \in DOMAIN a : a[i] <= v})

\* numpy searchsorted(a, v, side='left'): how many elements of a are below v
searchsorted(a, v) == Cardinality({i \in DOMAIN a : a[i] < v})

\* pd.cut(x, bins, labels=labels, include_lowest=lowest) for one value x:
\* the cell of the derived column
cut(x, bins, labels, lowest) ==
    LET found == searchsorted(bins, x)
        ids == IF lowest /\ x = bins[1] THEN 1 ELSE found
    IN IF ids = 0 \/ ids = Len(bins) THEN NA ELSE <<labels[ids]>>

\* setup_quality_categories(): the data frame afterwards and the exception raised
setup_quality_categories(d) ==
    IF empty(d) THEN [df |-> d, exc |-> NoException]
    ELSE IF QualityColumn \notin Range(d.columns)
    THEN [df |-> d, exc |-> Raise("KeyError", "setup_quality_categories")]
    ELSE [df |-> [columns |-> d.columns \o <<CategoryColumn>>,
                  rows |-> [i \in 1..Len(d.rows) |->
                              d.rows[i] @@
                              (CategoryColumn :>
                                 cut(d.rows[i][QualityColumn][1], sleep_quality_bins,
                                     sleep_quality_labels, include_lowest))]],
          exc |-> NoException]

(***************************************************************************)
(* Table Presenter                                                         *)
(***************************************************************************)
\* a head that does not cut
head_all(rows, n) == rows

\* DataFrame.head(n)
head(rows, n) == SubSeq(rows, 1, IF Len(rows) < n THEN Len(rows) ELSE n)

\* one element of itertuples(index=False): the cells of the row in column order
astuple(columns, row) == [j \in 1..Len(columns) |-> row[columns[j]]]

\* the tag of the row inserted at enumerate position idx (start=1)
rowtag(idx) == IF idx % 2 = 0 THEN "evenrow" ELSE "oddrow"

NoTree == [columns |-> <<>>, items |-> <<>>]

\* the Treeview filled from the data frame: one heading per column, one item
\* per row of head(HeadLimit)
treeview(d) ==
    LET shown == head(d.rows, HeadLimit)
    IN [columns |-> d.columns,
        items |-> [idx \in 1..Len(shown) |->
                     [values |-> astuple(d.columns, shown[idx]), tags |-> rowtag(idx)]]]

\* a show_full_dataset that keeps only the displayed rows in self.df
show_full_dataset_truncating(d) ==
    IF empty(d)
    THEN [df |-> d, dialogs |-> <<show_error_message(Message("no data to display", ""))>>,
          tree |-> NoTree, opened |-> FALSE]
    ELSE [df |-> [d EXCEPT !.rows = head(d.rows, HeadLimit)], dialogs |-> <<>>,
          tree |-> treeview(d), opened |-> TRUE]

\* show_full_dataset(): the data frame afterwards, the dialogs shown, the
\* tree view filled, and whether a window was opened
show_full_dataset(d) ==
    IF empty(d)
    THEN [df |-> d, dialogs |-> <<show_error_message(Message("no data to display", ""))>>,
          tree |-> NoTree, opened |-> FALSE]
    ELSE [df |-> d, dialogs |-> <<>>, tree |-> treeview(d), opened |-> TRUE]

(***************************************************************************)
(* Chart Suite                                                             *)
(***************************************************************************)
\* self.df[c]: the values of column c, in row order
column(d, c) == [i \in 1..Len(d.rows) |-> d.rows[i][c][1]]

\* Series.mean()
mean(s) == Float(Sum(s), Len(s))

\* v / k and v * k for a float v and an integer k
FloatDiv(v, k) == IF isfinite(v) THEN Float(v[1], v[2] * k) ELSE v

FloatMul(v, k) == IF isfinite(v) THEN Float(v[1] * k, v[2]) ELSE v

\* a normalization by the maximum alone: (mean / max_val) * 100
norm_val_by_max(s) == FloatMul(FloatDiv(mean(s), Max(s)), 100)

\* norm_val = ((mean - min_val) / (max_val - min_val)) * 100
norm_val(s) ==
    LET max_val == Max(s)
        min_val == Min(s)
    IN FloatMul(FloatDiv(FloatAdd(mean(s), -min_val), max_val - min_val), 100)

\* the first three charts and the columns each one reads
FlatCharts ==
    << [kind |-> "bar", reads |-> {"Stress Level", "Quality of Sleep"}],
       [kind |-> "scatter", reads |-> {"Daily Steps", "Sleep Duration", "Quality of Sleep"}],
       [kind |-> "violin", reads |-> {"Gender", "Quality of Sleep"}] >>

NoRadial == [heights |-> <<>>, texts |-> <<>>]

\* the radial chart drawn from the normalized values: ax.bar(angles, values)
\* and one ax.text per feature (angles in units of 2 pi / 6)
radial_chart(values) ==
    [heights |-> values,
     texts |-> [i \in 1..Len(categories) |->
                  [label |-> categories[i], angle |-> i - 1,
                   y |-> FloatAdd(values[i], 5), value |-> Format1f(values[i])]]]

\* show_analytics(): the data frame afterwards, the dialogs shown, the charts
\* shown in order, the radial chart's content, and the exception raised
show_analytics(d) ==
    IF empty(d)
    THEN [df |-> d, dialogs |-> <<showerror("Error", Message("no data to analyse", ""))>>,
          charts |-> <<>>, radial |-> NoRadial, exc |-> NoException]
    ELSE LET cols == Range(d.columns)
             bad == {i \in DOMAIN FlatCharts : ~(FlatCharts[i].reads \subseteq cols)}
             firstbad == IF bad = {} THEN Len(FlatCharts) + 1
                         ELSE CHOOSE i \in bad : \A j \in bad : i <= j
             drawn == [i \in 1..(firstbad - 1) |-> FlatCharts[i].kind]
         IN IF bad # {}
            THEN [df |-> d, dialogs |-> <<>>, charts |-> drawn, radial |-> NoRadial,
                  exc |-> Raise("ValueError", "show_analytics")]
            ELSE IF ~(Range(categories) \subseteq cols)
            THEN [df |-> d, dialogs |-> <<>>, charts |-> drawn, radial |-> NoRadial,
                  exc |-> Raise("KeyError", "show_analytics")]
            ELSE LET normalized_values ==
                         [i \in 1..Len(categories) |-> norm_val(column(d, categories[i]))]
                 IN [df |-> d, dialogs |-> <<>>, charts |-> drawn \o <<"radial">>,
                     radial |-> radial_chart(normalized_values), exc |-> NoException]

(***************************************************************************)
(* The program                                                             *)
(***************************************************************************)
IsSpace(ch) == ch \in {" ", "\t", "\n", "\r"}

RECURSIVE lstrip(_)
lstrip(line) ==
    IF line # <<>> /\ IsSpace(Head(line)) THEN lstrip(Tail(line)) ELSE line

RECURSIVE rstrip(_)
rstrip(line) ==
    IF line # <<>> /\ IsSpace(line[Len(line)])
    THEN rstrip(SubSeq(line, 1, Len(line) - 1)) ELSE line

\* str.strip()
strip(line) == rstrip(lstrip(line))

Init ==
    /\ pc = "start"
    /\ path \in Paths
    /\ file \in FilesAt(path)
    /\ df = DataFrame
    /\ dialogs = <<>>
    /\ trace = <<>>
    /\ read = <<>>
    /\ tree = NoTree
    /\ tables = 0
    /\ charts = <<>>
    /\ radial = NoRadial
    /\ exc = NoException

\* __init__: read_file, then setup_quality_categories
Construct ==
    /\ pc = "start"
    /\ LET loaded == read_file(path, file)
           derived == setup_quality_categories(loaded.df)
       IN /\ dialogs' = dialogs \o loaded.dialogs
          /\ df' = derived.df
          /\ exc' = derived.exc
          /\ pc' = IF derived.exc = NoException THEN "constructed" ELSE "Crashed"
    /\ UNCHANGED <<path, file, trace, read, tree, tables, charts, radial>>

\* run(): the first pass through the loop head prints the menu and waits
Run ==
    /\ pc = "constructed"
    /\ pc' = "AwaitingChoice"
    /\ trace' = trace \o <<"prompt">>
    /\ UNCHANGED <<path, file, df, dialogs, read, tree, tables, charts, radial, exc>>

\* choice == '1'
ChooseTable ==
    /\ pc = "AwaitingChoice"
    /\ Len(read) < MaxInputs
    /\ \E line \in Lines :
        /\ strip(line) = <<"1">>
        /\ read' = Append(read, line)
        /\ LET r == show_full_dataset(df)
           IN /\ df' = r.df
              /\ dialogs' = dialogs \o r.dialogs
              /\ tree' = IF r.opened THEN r.tree ELSE tree
              /\ tables' = IF r.opened THEN tables + 1 ELSE tables
        /\ trace' = trace \o <<"table", "prompt">>
    /\ UNCHANGED <<pc, path, file, charts, radial, exc>>

\* choice == '2'
ChooseCharts ==
    /\ pc = "AwaitingChoice"
    /\ Len(read) < MaxInputs
    /\ \E line \in Lines :
        /\ strip(line) = <<"2">>
        /\ read' = Append(read, line)
        /\ LET r == show_analytics(df)
           IN /\ df' = r.df
              /\ dialogs' = dialogs \o r.dialogs
              /\ charts' = charts \o r.charts
              /\ radial' = IF r.radial = NoRadial THEN radial ELSE r.radial
              /\ exc' = r.exc
              /\ pc' = IF r.exc = NoException THEN "AwaitingChoice" ELSE "Crashed"
              /\ trace' = IF r.exc = NoException THEN trace \o <<"charts", "prompt">>
                          ELSE trace \o <<"charts">>
    /\ UNCHANGED <<path, file, tree, tables>>

\* choice == '3'
ChooseExit ==
    /\ pc = "AwaitingChoice"
    /\ Len(read) < MaxInputs
    /\ \E line \in Lines :
        /\ strip(line) = <<"3">>
        /\ read' = Append(read, line)
    /\ trace' = Append(trace, "farewell")
    /\ pc' = "Terminated"
    /\ UNCHANGED <<path, file, df, dialogs, tree, tables, charts, radial, exc>>

\* any other choice
ChooseInvalid ==
    /\ pc = "AwaitingChoice"
    /\ Len(read) < MaxInputs
    /\ \E line \in Lines :
        /\ strip(line) \notin {<<"1">>, <<"2">>, <<"3">>}
        /\ read' = Append(read, line)
    /\ trace' = trace \o <<"invalid", "prompt">>
    /\ UNCHANGED <<pc, path, file, df, dialogs, tree, tables, charts, radial, exc>>

\* input() at the end of standard input raises EOFError, which run() does not catch
InputEOF ==
    /\ pc = "AwaitingChoice"
    /\ exc' = Raise("EOFError", "input")
    /\ pc' = "Crashed"
    /\ UNCHANGED <<path, file, df, dialogs, trace, read, tree, tables, charts, radial>>

Next ==
    \/ Construct
    \/ Run
    \/ ChooseTable
    \/ ChooseCharts
    \/ ChooseExit
    \/ ChooseInvalid
    \/ InputEOF

Spec == Init /\ [][Next]_vars

(***************************************************************************)
(* Properties                                                              *)
(***************************************************************************)
\* __init__ has returned
Constructed == pc \in {"constructed", "AwaitingChoice", "Terminated"}
                  \/ (pc = "Crashed" /\ exc.origin # "setup_quality_categories")

Low == <<"Low">>
Medium == <<"Medium">>
High == <<"High">>

\* C1: after construction every retained record whose score s is in [0,3]
\* has category Low, in (3,6] Medium, in (6,10] High (scores in tenths)
C1_CategoryBins ==
    Constructed =>
        \A i \in DOMAIN df.rows :
            LET s == df.rows[i]["Quality of Sleep"][1]
                c == df.rows[i][CategoryColumn]
            IN /\ (0 <= s /\ s <= 30) => c = Low
               /\ (30 < s /\ s <= 60) => c = Medium
               /\ (60 < s /\ s <= 100) => c = High

\* the boundary scores 0, 3, 3.1, 6, 6.1, 10 have been categorised
C1_Witness ==
    /\ Constructed
    /\ [i \in DOMAIN df.rows |-> df.rows[i]["Quality of Sleep"][1]] = <<0, 30, 31, 60, 61, 100>>
    /\ [i \in DOMAIN df.rows |-> df.rows[i][CategoryColumn]] = <<Low, Low, Medium, Medium, High, High>>

\* C2: after construction on a non-empty dataset every retained record has
\* exactly one category, one of Low / Medium / High, whatever its score
C2_EveryRecordCategorised ==
    (Constructed /\ ~empty(df)) =>
        \A i \in DOMAIN df.rows :
            /\ CategoryColumn \in DOMAIN df.rows[i]
            /\ df.rows[i][CategoryColumn] \in {Low, Medium, High}

\* the indices of the rows of f without a missing field, in file order
CompleteRows(f) ==
    SelectSeq([i \in DOMAIN f.rows |-> i],
              LAMBDA i : \A c \in DOMAIN f.rows[i] : f.rows[i][c] # <<>>)

\* C3: a parsable file with N rows, M of them with a missing field, yields
\* exactly N - M records, in file order, none with a missing field, each
\* with a derived category
C3_LoadDropsIncompleteRows ==
    (Constructed /\ file.kind = "csv") =>
        LET N == Len(file.rows)
            M == Cardinality({i \in DOMAIN file.rows :
                                \E c \in DOMAIN file.rows[i] : file.rows[i][c] = <<>>})
            kept == CompleteRows(file)
        IN /\ Len(df.rows) = N - M
           /\ Len(kept) = N - M
           /\ \A k \in DOMAIN df.rows :
                /\ \A c \in Range(file.columns) : df.rows[k][c] = file.rows[kept[k]][c]
                /\ \A c \in DOMAIN df.rows[k] : df.rows[k][c] # <<>>
                /\ CategoryColumn \in DOMAIN df.rows[k]

\* the presenter invocations of a trace, in order
Invocations(t) == SelectSeq(t, LAMBDA e : e \in {"table", "charts"})

\* C4: with no file at the path, construction shows exactly one
\* file-not-found dialog naming the path and leaves zero records; every
\* later table or chart invocation shows a no-data dialog, opens no table,
\* renders no chart and returns to the menu
C4_AbsentFile ==
    (file.kind = "absent" /\ pc # "start") =>
        /\ dialogs # <<>>
        /\ dialogs[1] = [title |-> "Error",
                         text |-> [kind |-> "file not found", arg |-> path, width |-> <<60>>]]
        /\ Cardinality({i \in DOMAIN dialogs : dialogs[i].text.kind = "file not found"}) = 1
        /\ df.rows = <<>>
        /\ ~(pc = "Crashed" /\ exc.origin # "input")
        /\ tables = 0 /\ tree.items = <<>> /\ charts = <<>> /\ radial.heights = <<>>
        /\ Len(dialogs) = 1 + Len(Invocations(trace))
        /\ \A k \in DOMAIN Invocations(trace) :
              dialogs[k + 1].text.kind =
                  IF Invocations(trace)[k] = "table" THEN "no data to display"
                  ELSE "no data to analyse"
        /\ pc = "AwaitingChoice" => trace[Len(trace)] = "prompt"

\* both presenters have been invoked on the dataset of an absent file
C4_Witness ==
    /\ file.kind = "absent"
    /\ Len(dialogs) = 3
    /\ "table" \in Range(trace)
    /\ "charts" \in Range(trace)
    /\ pc = "AwaitingChoice"

\* what the menu loop prints and invokes for the lines read, per the menu's
\* transition table: the first prompt, then per line the reaction and a new
\* prompt, and for "3" the farewell and nothing more
RECURSIVE Expected(_)
Expected(lines) ==
    IF lines = <<>> THEN <<"prompt">>
    ELSE LET before == Expected(SubSeq(lines, 1, Len(lines) - 1))
             choice == strip(lines[Len(lines)])
         IN IF choice = <<"1">> THEN before \o <<"table", "prompt">>
            ELSE IF choice = <<"2">> THEN before \o <<"charts", "prompt">>
            ELSE IF choice = <<"3">> THEN before \o <<"farewell">>
            ELSE before \o <<"invalid", "prompt">>

\* C5: once run() has started, the prompts, presenter invocations, invalid
\* input messages and the farewell are exactly those of the lines read, in
\* input order and each followed by a new prompt; "3" is read at most once,
\* as the last line, and the loop is Terminated exactly then
C5_MenuDispatch ==
    trace # <<>> =>
        /\ trace = Expected(read)
        /\ \A i \in 1..(Len(read) - 1) : strip(read[i]) # <<"3">>
        /\ pc = "Terminated" <=> (read # <<>> /\ strip(read[Len(read)]) = <<"3">>)

\* C6: a table opened on a dataset of length L holds the first min(200, L)
\* records in dataset order, and row N is tagged even iff N is even
C6_TableRows ==
    tables > 0 =>
        LET L == Len(df.rows)
            n == IF L < 200 THEN L ELSE 200
        IN /\ Len(tree.items) = n
           /\ \A N \in 1..n :
                /\ Len(tree.items[N].values) = Len(df.columns)
                /\ \A j \in DOMAIN df.columns :
                      tree.items[N].values[j] = df.rows[N][df.columns[j]]
                /\ tree.items[N].tags = (IF N % 2 = 0 THEN "evenrow" ELSE "oddrow")

\* a table has been opened on a dataset of more than 200 records
C6_Witness ==
    /\ tables > 0
    /\ Len(df.rows) > 200
    /\ Len(tree.items) = 200

\* the six features of the radial chart, in the fixed order
SixFeatures == <<"Sleep Duration", "Quality of Sleep", "Physical Activity Level",
                 "Stress Level", "Heart Rate", "Daily Steps">>

\* C7: the i-th bar of a drawn radial chart belongs to the i-th of the six
\* features and, when that feature's max exceeds its min, has the length
\* ((mean - min) / (max - min)) * 100 over the retained records; the values
\* 2, 4, 6, 8 give exactly 50
C7_RadialNormalization ==
    radial.heights # <<>> =>
        /\ Len(radial.heights) = 6
        /\ \A i \in 1..6 :
            LET s == [k \in DOMAIN df.rows |-> df.rows[k][SixFeatures[i]][1]]
                n == Len(s)
                total == Sum(s)
                h == radial.heights[i]
            IN /\ radial.texts[i].label = SixFeatures[i]
               /\ \A lo, hi \in Range(s) :
                    ((\A x \in Range(s) : lo <= x /\ x <= hi) /\ lo < hi) =>
                        /\ h[2] > 0
                        /\ h[1] * n * (hi - lo) = 100 * (total - n * lo) * h[2]
               /\ s = <<2, 4, 6, 8>> => h = <<50, 1>>

\* the radial chart of the example dataset has been drawn
C7_Witness ==
    /\ radial.heights = << <<50, 1>>, <<60, 1>>, <<25, 1>>, <<40, 1>>, <<75, 1>>, <<30, 1>> >>
    /\ [k \in DOMAIN df.rows |-> df.rows[k]["Sleep Duration"][1]] = <<2, 4, 6, 8>>

\* C8: no failure inside the Loader, Category Deriver, Table Presenter or
\* Chart Suite ends the process
C8_NoFailureTerminates ==
    ~(pc = "Crashed"
       /\ exc.origin \in {"read_file", "setup_quality_categories",
                           "show_full_dataset", "show_analytics"})

\* C9: every bar length and annotation of a drawn radial chart is finite
C9_FiniteRadialValues ==
    \A i \in DOMAIN radial.heights :
        /\ radial.heights[i][2] # 0
        /\ radial.texts[i].y[2] # 0
        /\ radial.texts[i].value[2] # 0

\* C10: after construction no step of the program changes the dataset
C10_DatasetReadOnly == [][pc # "start" => df' = df]_vars

\* the table and the charts have been shown on a non-empty dataset, and the
\* program has exited
C10_Witness ==
    /\ pc = "Terminated"
    /\ tables > 0
    /\ "radial" \in Range(charts)
    /\ Len(df.rows) > 200

====
